---- MODULE Spec2Model ----
(***************************************************************************)
(* Model of the QUIC bidirectional throughput harness (src/src/main.rs):   *)
(* main, Server::create_server, report_stats, run_server,                  *)
(* server_handle_connection, drive_stream, drive_datagram and run_client.  *)
(* One action per await point of each task; the transport (quinn) is the   *)
(* environment: it moves written streams and datagrams between the peers,  *)
(* and, when fault injection is on, fails individual operations.           *)
(***************************************************************************)
EXTENDS Integers, Naturals, FiniteSets, Sequences, TLC

(* ----------------------------- bounds ---------------------------------- *)
\* opt.num_threads: client connections (one Send Driver each)
NumThreads == 2
\* opt.num_packets: packets per Send Driver
NumPackets == 2
\* opt.num_endpoints: server endpoints
NumEndpoints == 2
\* faults the transport may inject in one run
MaxFaults == 1
Conns == 1..NumThreads
Endpoints == 1..NumEndpoints
Modes == {"combined", "client_only", "server_only"}

VARIABLES
  mode,            \* (opt.server_only, opt.client_only)
  addr_ok,         \* opt.server_address parses as a SocketAddr
  faults,          \* number of faults the transport may still inject
  server_addr,     \* address the client connects to (0: not yet known)
  main_pc,         \* position of main
  rc_pc, rc_i,     \* position of run_client and its loop index i
  summary_sent,    \* value of total_sent logged by run_client
  rs_pc,           \* per endpoint: run_server task
  incoming,        \* per endpoint: connection attempts not yet accepted
  conn,            \* per connection: state of the QUIC connection
  srv_pc,          \* per connection: server_handle_connection / drive_stream
  sd_pc, sd_k,     \* per connection: Send Driver position and iterations done
  dd_pc,           \* per connection: drive_datagram task
  unflushed,       \* per connection: finished streams still in the send buffer
  arrived,         \* per connection: streams at the server, not yet accepted
  dgrams,          \* per connection: acknowledgment datagrams in flight
  total_sent, total_received, total_received_responses,
  \* history of the run (what happened so far)
  drainedOk,       \* streams whose drain ended without a read error
  drainedEof,      \* streams whose drain ended on end-of-stream (None)
  recvIncr,        \* fetch_add(1) executed on total_received
  ackAttempts,     \* send_datagram_wait calls resolved (Ok or Err)
  ackSent,         \* send_datagram_wait calls resolved Ok
  reportedSum,     \* sum of the values logged by report_stats
  nOpenFail,       \* open_uni failures
  nWriteFail,      \* write_all failures
  hadFail          \* per connection: some stream was classified Failure

ctl      == <<mode, addr_ok, faults, server_addr, main_pc, rc_pc, rc_i, summary_sent>>
srvTasks == <<rs_pc, incoming, srv_pc>>
cliTasks == <<sd_pc, sd_k, dd_pc>>
wire     == <<conn, unflushed, arrived, dgrams>>
counters == <<total_sent, total_received, total_received_responses>>
srvHist  == <<drainedOk, drainedEof, recvIncr, ackAttempts, ackSent, hadFail>>
repHist  == <<reportedSum>>
cliHist  == <<nOpenFail, nWriteFail>>
vars == <<ctl, srvTasks, cliTasks, wire, counters, srvHist, repHist, cliHist>>

(* ------------------------------ helpers -------------------------------- *)
\* The process of the client role is running (main has neither returned nor panicked).
ClientAlive == main_pc \notin {"exit", "panicked"}
\* The server role is running: in client-only mode it is the remote peer process.
ServerAlive == mode = "client_only" \/ main_pc \notin {"exit", "panicked"}

Closed(c) == conn[c] \in {"lost", "failed"}

\* EndpointAddr with a plausible slip: one port of the range per endpoint.
EndpointAddr_PerPort(e) == e

\* The address server endpoint e is bound to.  setup_server gets its sockets
\* from multi_bind_in_range, which returns one port and count sockets all
\* bound to it (SO_REUSEPORT): the endpoints share a single address.
EndpointAddr(e) == 1

\* The server endpoints a connection attempt to address a can be delivered to:
\* the kernel picks one socket among those bound to the address.
Routes(a) == {e \in Endpoints : EndpointAddr(e) = a}

\* Outcome of an operation that fails only with a connection error.
ConnOutcomes(c) == IF conn[c] = "up" THEN {"ok"} ELSE {"err"}

\* Outcomes an awaited transport operation can have on connection c: it
\* fails when the connection is gone, and may fail by an injected fault.
OpOutcomes(c) ==
  IF conn[c] # "up" THEN {"err"}
  ELSE IF faults > 0 THEN {"ok", "err"} ELSE {"ok"}

\* The fault budget after an operation on connection c resolved with r.
FaultsAfter(c, r) == IF r = "err" /\ conn[c] = "up" THEN faults - 1 ELSE faults

\* Results of stream.read_chunks on an arrived stream: Ok(Some(n)) with
\* n > 0 ("chunk"), Ok(None) ("eof"), Err ("err"), and Ok(Some(0)) ("zero"),
\* a read that yields no chunk although the stream has not ended.  The
\* transport hands out the last two only as injected faults.
ReadResults ==
  IF faults > 0 THEN {"chunk", "eof", "err", "zero"} ELSE {"chunk", "eof"}

\* No transport work is outstanding on connection c (idle timer can expire).
Quiescent(c) ==
  /\ sd_pc[c] \in {"done", "panicked"}
  /\ unflushed[c] = 0 /\ arrived[c] = 0 /\ dgrams[c] = 0
  /\ srv_pc[c] = "accept_uni"

(* ------------------------------- Init ---------------------------------- *)
Init ==
  /\ mode \in Modes
  /\ faults \in {0, MaxFaults}
  /\ addr_ok \in BOOLEAN
  /\ server_addr \in IF mode = "client_only" /\ addr_ok
                      THEN {EndpointAddr(e) : e \in Endpoints} ELSE {0}
  /\ main_pc = "start"
  /\ rc_pc = "idle" /\ rc_i = 0
  /\ summary_sent = 0
  /\ rs_pc = [e \in Endpoints |-> IF mode = "client_only" THEN "accepting" ELSE "unspawned"]
  /\ incoming = [e \in Endpoints |-> {}]
  /\ conn = [c \in Conns |-> "none"]
  /\ srv_pc = [c \in Conns |-> "none"]
  /\ sd_pc = [c \in Conns |-> "unspawned"]
  /\ sd_k = [c \in Conns |-> 0]
  /\ dd_pc = [c \in Conns |-> "unspawned"]
  /\ unflushed = [c \in Conns |-> 0]
  /\ arrived = [c \in Conns |-> 0]
  /\ dgrams = [c \in Conns |-> 0]
  /\ total_sent = 0 /\ total_received = 0 /\ total_received_responses = 0
  /\ drainedOk = 0 /\ drainedEof = 0 /\ recvIncr = 0
  /\ ackAttempts = 0 /\ ackSent = 0
  /\ reportedSum = 0
  /\ nOpenFail = 0 /\ nWriteFail = 0
  /\ hadFail = [c \in Conns |-> FALSE]

(* -------------------------------- main --------------------------------- *)
\* Server::create_server: spawns report_stats and one run_server per endpoint.
create_server == rs_pc' = [e \in Endpoints |-> "accepting"]

\* MainStart with a plausible slip: server-only mode binds without parsing
\* the configured address.
MainStart_NoParse ==
  /\ main_pc = "start"
  /\ CASE mode = "server_only" ->
            /\ create_server
            /\ main_pc' = "join"
            /\ UNCHANGED <<addr_ok, server_addr, rc_pc>>
       [] mode = "client_only" ->
            /\ main_pc' = "client"
            /\ rc_pc' = "setup"
            /\ UNCHANGED <<addr_ok, server_addr, rs_pc>>
       [] OTHER ->
            /\ addr_ok' = TRUE
            /\ create_server
            /\ server_addr' = EndpointAddr(1)
            /\ main_pc' = "sleep"
            /\ UNCHANGED rc_pc
  /\ UNCHANGED <<mode, faults, rc_i, summary_sent, incoming, srv_pc>>
  /\ UNCHANGED <<cliTasks, wire, counters, srvHist, repHist, cliHist>>

\* main, up to its first await.  Server-only mode parses opt.server_address
\* and panics on a malformed one before create_server; client-only mode leaves
\* the parsing to run_client; combined mode overwrites opt.server_address
\* with the unspecified address and then with the server's local address, so
\* that whatever was configured is never parsed.
MainStart ==
  /\ main_pc = "start"
  /\ CASE mode = "server_only" ->
            /\ IF addr_ok
                 THEN create_server /\ main_pc' = "join"
                 ELSE main_pc' = "panicked" /\ UNCHANGED rs_pc
            /\ UNCHANGED <<addr_ok, server_addr, rc_pc>>
       [] mode = "client_only" ->
            /\ main_pc' = "client"
            /\ rc_pc' = "setup"
            /\ UNCHANGED <<addr_ok, server_addr, rs_pc>>
       [] OTHER ->
            /\ addr_ok' = TRUE
            /\ create_server
            /\ server_addr' = EndpointAddr(1)  \* endpoints[0].local_addr()
            /\ main_pc' = "sleep"
            /\ UNCHANGED rc_pc
  /\ UNCHANGED <<mode, faults, rc_i, summary_sent, incoming, srv_pc>>
  /\ UNCHANGED <<cliTasks, wire, counters, srvHist, repHist, cliHist>>

\* time::sleep(1s) elapsed; main calls run_client.
MainSleep ==
  /\ main_pc = "sleep"
  /\ main_pc' = "client"
  /\ rc_pc' = "setup"
  /\ UNCHANGED <<mode, addr_ok, faults, server_addr, rc_i, summary_sent>>
  /\ UNCHANGED <<srvTasks, cliTasks, wire, counters, srvHist, repHist, cliHist>>

\* run_client returned in combined mode: main awaits server.join().
MainJoin ==
  /\ main_pc = "client" /\ rc_pc = "done" /\ mode = "combined"
  /\ main_pc' = "join"
  /\ UNCHANGED <<mode, addr_ok, faults, server_addr, rc_pc, rc_i, summary_sent>>
  /\ UNCHANGED <<srvTasks, cliTasks, wire, counters, srvHist, repHist, cliHist>>

\* main returns: after run_client in client-only mode, after every run_server
\* handle has completed otherwise.  run_server completes only when
\* endpoint.accept() yields None, i.e. when the endpoint is closed, and
\* nothing in the program closes an endpoint.
MainReturn ==
  /\ main_pc \in {"client", "join"}
  /\ IF main_pc = "client"
       THEN rc_pc = "done" /\ mode = "client_only"
       ELSE \A e \in Endpoints : rs_pc[e] = "ended"
  /\ main_pc' = "exit"
  /\ UNCHANGED <<mode, addr_ok, faults, server_addr, rc_pc, rc_i, summary_sent>>
  /\ UNCHANGED <<srvTasks, cliTasks, wire, counters, srvHist, repHist, cliHist>>

(* ----------------------------- server role ----------------------------- *)
\* Swap with a plausible slip: the counter is read but not reset.
Swap_NoReset(n) == <<n, n>>

\* total_received.swap(0): the new value of the counter and the value returned.
Swap(n) == <<0, n>>

\* report_stats: one tick of the 5 second period.
ReportStats ==
  /\ ServerAlive
  /\ rs_pc[1] = "accepting"
  /\ total_received' = Swap(total_received)[1]
  /\ reportedSum' = reportedSum + Swap(total_received)[2]
  /\ UNCHANGED <<total_sent, total_received_responses>>
  /\ UNCHANGED <<ctl, srvTasks, cliTasks, wire, srvHist, cliHist>>

\* RunServerAccept with a plausible slip: the accept loop awaits the
\* connection's lifecycle itself instead of spawning it.
RunServerAccept_Inline(e) ==
  /\ ServerAlive
  /\ rs_pc[e] = "accepting"
  /\ \A d \in Conns : srv_pc[d] \in {"none", "ended"}
  /\ \E c \in incoming[e] :
       /\ incoming' = [incoming EXCEPT ![e] = @ \ {c}]
       /\ srv_pc' = [srv_pc EXCEPT ![c] = "handshake"]
  /\ UNCHANGED rs_pc
  /\ UNCHANGED <<ctl, cliTasks, wire, counters, srvHist, repHist, cliHist>>

\* run_server: endpoint.accept() yields an incoming connection, whose
\* lifecycle is spawned as an independent task.
RunServerAccept(e) ==
  /\ ServerAlive
  /\ rs_pc[e] = "accepting"
  /\ \E c \in incoming[e] :
       /\ incoming' = [incoming EXCEPT ![e] = @ \ {c}]
       /\ srv_pc' = [srv_pc EXCEPT ![c] = "handshake"]
  /\ UNCHANGED rs_pc
  /\ UNCHANGED <<ctl, cliTasks, wire, counters, srvHist, repHist, cliHist>>

\* server_handle_connection: handshake.await, then drive_stream.
ServerHandleConnection(c) ==
  /\ ServerAlive
  /\ srv_pc[c] = "handshake"
  /\ \E r \in (IF faults > 0 THEN {"ok", "err"} ELSE {"ok"}) :
       IF r = "ok"
         THEN /\ srv_pc' = [srv_pc EXCEPT ![c] = "accept_uni"]
              /\ conn' = [conn EXCEPT ![c] = "up"]
              /\ UNCHANGED faults
         ELSE /\ srv_pc' = [srv_pc EXCEPT ![c] = "ended"]
              /\ conn' = [conn EXCEPT ![c] = "failed"]
              /\ faults' = faults - 1
  /\ UNCHANGED <<rs_pc, incoming, unflushed, arrived, dgrams>>
  /\ UNCHANGED <<mode, addr_ok, server_addr, main_pc, rc_pc, rc_i, summary_sent>>
  /\ UNCHANGED <<cliTasks, counters, srvHist, repHist, cliHist>>

\* DriveStreamAccept with a plausible slip: the accept error is propagated
\* out of the connection's task and takes the accept loops down.
DriveStreamAccept_Propagate(c) ==
  /\ ServerAlive
  /\ srv_pc[c] = "accept_uni"
  /\ \/ /\ arrived[c] > 0
        /\ arrived' = [arrived EXCEPT ![c] = @ - 1]
        /\ srv_pc' = [srv_pc EXCEPT ![c] = "read"]
        /\ UNCHANGED rs_pc
     \/ /\ arrived[c] = 0 /\ Closed(c)
        /\ srv_pc' = [srv_pc EXCEPT ![c] = "ended"]
        /\ rs_pc' = [e \in Endpoints |-> "ended"]
        /\ UNCHANGED arrived
  /\ UNCHANGED <<incoming, conn, unflushed, dgrams>>
  /\ UNCHANGED <<ctl, cliTasks, counters, srvHist, repHist, cliHist>>

\* drive_stream: connection.accept_uni().await resolves.
DriveStreamAccept(c) ==
  /\ ServerAlive
  /\ srv_pc[c] = "accept_uni"
  /\ \/ /\ arrived[c] > 0                              \* Ok(stream)
        /\ arrived' = [arrived EXCEPT ![c] = @ - 1]
        /\ srv_pc' = [srv_pc EXCEPT ![c] = "read"]
     \/ /\ arrived[c] = 0 /\ Closed(c)                 \* Err(err): break
        /\ srv_pc' = [srv_pc EXCEPT ![c] = "ended"]
        /\ UNCHANGED arrived
  /\ UNCHANGED <<rs_pc, incoming, conn, unflushed, dgrams>>
  /\ UNCHANGED <<ctl, cliTasks, counters, srvHist, repHist, cliHist>>

\* has_failure after the inner loop broke on read result r.
HasFailure(r) == r = "err"

\* RecvAfterDrain with a plausible slip: the increment is outside the has_failure test.
RecvAfterDrain_Always(has_failure, n) == n + 1

\* if !has_failure { total_received.fetch_add(1) }
RecvAfterDrain(has_failure, n) == IF ~has_failure THEN n + 1 ELSE n

\* PcAfterDrain with a plausible slip: the acknowledgment is sent for every stream.
PcAfterDrain_AckAlways(has_failure) == "send_datagram"

\* PcAfterDrain with a plausible slip: a read error breaks out of the accept loop.
PcAfterDrain_Break(has_failure) == IF ~has_failure THEN "send_datagram" ELSE "ended"

\* Where drive_stream goes after the inner loop: the acknowledgment send is
\* inside the same if !has_failure block.
PcAfterDrain(has_failure) == IF ~has_failure THEN "send_datagram" ELSE "accept_uni"

\* drive_stream: one stream.read_chunks(&mut chunks).await resolves.  The
\* inner loop goes on after chunks, and breaks on None, on Some(0) and on Err;
\* only Err sets has_failure.
DriveStreamRead(c) ==
  /\ ServerAlive
  /\ srv_pc[c] = "read"
  /\ \E r \in ReadResults :
       /\ faults' = IF r \in {"err", "zero"} THEN faults - 1 ELSE faults
       /\ drainedEof' = IF r = "eof" THEN drainedEof + 1 ELSE drainedEof
       /\ IF r = "chunk"
            THEN UNCHANGED <<srv_pc, total_received, drainedOk, recvIncr, hadFail>>
            ELSE /\ srv_pc' = [srv_pc EXCEPT ![c] = PcAfterDrain(HasFailure(r))]
                 /\ total_received' = RecvAfterDrain(HasFailure(r), total_received)
                 /\ recvIncr' = recvIncr + (total_received' - total_received)
                 /\ drainedOk' = IF r = "err" THEN drainedOk ELSE drainedOk + 1
                 /\ hadFail' = [hadFail EXCEPT ![c] = @ \/ r = "err"]
  /\ UNCHANGED <<rs_pc, incoming, ackAttempts, ackSent>>
  /\ UNCHANGED <<total_sent, total_received_responses>>
  /\ UNCHANGED <<mode, addr_ok, server_addr, main_pc, rc_pc, rc_i, summary_sent>>
  /\ UNCHANGED <<cliTasks, wire, repHist, cliHist>>

\* DriveStreamSendDatagram with a plausible slip: a failed send is retried.
DriveStreamSendDatagram_Retry(c) ==
  /\ ServerAlive
  /\ srv_pc[c] = "send_datagram"
  /\ \E r \in OpOutcomes(c) :
       /\ dgrams' = [dgrams EXCEPT ![c] = IF r = "ok" THEN @ + 1 ELSE @]
       /\ ackSent' = IF r = "ok" THEN ackSent + 1 ELSE ackSent
       /\ faults' = FaultsAfter(c, r)
       /\ srv_pc' = [srv_pc EXCEPT ![c] = IF r = "ok" THEN "accept_uni" ELSE "send_datagram"]
  /\ ackAttempts' = ackAttempts + 1
  /\ UNCHANGED <<rs_pc, incoming, conn, unflushed, arrived>>
  /\ UNCHANGED <<drainedOk, drainedEof, recvIncr, hadFail>>
  /\ UNCHANGED <<mode, addr_ok, server_addr, main_pc, rc_pc, rc_i, summary_sent>>
  /\ UNCHANGED <<cliTasks, counters, repHist, cliHist>>

\* drive_stream: connection.send_datagram_wait(packet).await resolves.
DriveStreamSendDatagram(c) ==
  /\ ServerAlive
  /\ srv_pc[c] = "send_datagram"
  /\ \E r \in OpOutcomes(c) :
       /\ dgrams' = [dgrams EXCEPT ![c] = IF r = "ok" THEN @ + 1 ELSE @]
       /\ ackSent' = IF r = "ok" THEN ackSent + 1 ELSE ackSent
       /\ faults' = FaultsAfter(c, r)
  /\ ackAttempts' = ackAttempts + 1
  /\ srv_pc' = [srv_pc EXCEPT ![c] = "accept_uni"]
  /\ UNCHANGED <<rs_pc, incoming, conn, unflushed, arrived>>
  /\ UNCHANGED <<drainedOk, drainedEof, recvIncr, hadFail>>
  /\ UNCHANGED <<mode, addr_ok, server_addr, main_pc, rc_pc, rc_i, summary_sent>>
  /\ UNCHANGED <<cliTasks, counters, repHist, cliHist>>

(* ----------------------------- client role ----------------------------- *)
\* run_client up to the connect loop: parse opt.server_address (a malformed
\* one makes expect panic, which unwinds through main), then setup_client.
RunClientSetup ==
  /\ ClientAlive
  /\ rc_pc = "setup"
  /\ IF addr_ok
       THEN rc_pc' = "connect" /\ rc_i' = 1 /\ UNCHANGED main_pc
       ELSE rc_pc' = "panicked" /\ main_pc' = "panicked" /\ UNCHANGED rc_i
  /\ UNCHANGED <<mode, addr_ok, faults, server_addr, summary_sent>>
  /\ UNCHANGED <<srvTasks, cliTasks, wire, counters, srvHist, repHist, cliHist>>

\* run_client: endpoints[i].connect(server_addr, "localhost") issued; the
\* attempt reaches one of the server endpoints bound to server_addr.
RunClientConnect ==
  /\ ClientAlive
  /\ rc_pc = "connect"
  /\ conn' = [conn EXCEPT ![rc_i] = "connecting"]
  /\ \E e \in Routes(server_addr) :
       incoming' = [incoming EXCEPT ![e] = @ \cup {rc_i}]
  /\ rc_pc' = "await_conn"
  /\ UNCHANGED <<mode, addr_ok, faults, server_addr, main_pc, rc_i, summary_sent>>
  /\ UNCHANGED <<rs_pc, srv_pc, unflushed, arrived, dgrams>>
  /\ UNCHANGED <<cliTasks, counters, srvHist, repHist, cliHist>>

\* run_client: the connecting future resolved.  Err: expect("Connection
\* failed") panics, which unwinds through main.  Ok: drive_datagram and the
\* Send Driver of connection i are spawned and the loop goes on.
RunClientConnected ==
  /\ ClientAlive
  /\ rc_pc = "await_conn"
  /\ conn[rc_i] \in {"up", "lost", "failed"}
  /\ IF conn[rc_i] = "failed"
       THEN /\ rc_pc' = "panicked"
            /\ main_pc' = "panicked"
            /\ UNCHANGED <<rc_i, dd_pc, sd_pc>>
       ELSE /\ dd_pc' = [dd_pc EXCEPT ![rc_i] = "reading"]
            /\ sd_pc' = [sd_pc EXCEPT ![rc_i] = IF NumPackets = 0 THEN "done" ELSE "open"]
            /\ rc_i' = IF rc_i = NumThreads THEN rc_i ELSE rc_i + 1
            /\ rc_pc' = IF rc_i = NumThreads THEN "report" ELSE "connect"
            /\ UNCHANGED main_pc
  /\ UNCHANGED <<mode, addr_ok, faults, server_addr, summary_sent, sd_k>>
  /\ UNCHANGED <<srvTasks, wire, counters, srvHist, repHist, cliHist>>

\* RunClientReport with a plausible slip: the Send Driver handles are awaited
\* before the counter is loaded.
RunClientReport_AfterDrivers ==
  /\ ClientAlive
  /\ rc_pc = "report"
  /\ \A c \in Conns : sd_pc[c] \in {"done", "panicked"}
  /\ summary_sent' = total_sent
  /\ rc_pc' = "wait_idle"
  /\ rc_i' = 1
  /\ UNCHANGED <<mode, addr_ok, faults, server_addr, main_pc>>
  /\ UNCHANGED <<srvTasks, cliTasks, wire, counters, srvHist, repHist, cliHist>>

\* run_client: total_sent.load() for the summary line.
RunClientReport ==
  /\ ClientAlive
  /\ rc_pc = "report"
  /\ summary_sent' = total_sent
  /\ rc_pc' = "wait_idle"
  /\ rc_i' = 1
  /\ UNCHANGED <<mode, addr_ok, faults, server_addr, main_pc>>
  /\ UNCHANGED <<srvTasks, cliTasks, wire, counters, srvHist, repHist, cliHist>>

\* RunClientWaitIdle with a plausible slip: run_client does not wait for the endpoint.
RunClientWaitIdle_NoWait ==
  /\ ClientAlive
  /\ rc_pc = "wait_idle"
  /\ rc_i' = IF rc_i = NumThreads THEN rc_i ELSE rc_i + 1
  /\ rc_pc' = IF rc_i = NumThreads THEN "done" ELSE "wait_idle"
  /\ UNCHANGED <<mode, addr_ok, faults, server_addr, main_pc, summary_sent>>
  /\ UNCHANGED <<srvTasks, cliTasks, wire, counters, srvHist, repHist, cliHist>>

\* run_client: endpoints[i].wait_idle().await resolves once every connection
\* of endpoint i is drained; after the last endpoint run_client returns.
RunClientWaitIdle ==
  /\ ClientAlive
  /\ rc_pc = "wait_idle"
  /\ Closed(rc_i)
  /\ rc_i' = IF rc_i = NumThreads THEN rc_i ELSE rc_i + 1
  /\ rc_pc' = IF rc_i = NumThreads THEN "done" ELSE "wait_idle"
  /\ UNCHANGED <<mode, addr_ok, faults, server_addr, main_pc, summary_sent>>
  /\ UNCHANGED <<srvTasks, cliTasks, wire, counters, srvHist, repHist, cliHist>>

\* Send Driver: conn.open_uni().await.unwrap().  An Err makes unwrap panic,
\* which ends the task.
SendOpenUni(c) ==
  /\ ClientAlive
  /\ sd_pc[c] = "open"
  /\ \E r \in ConnOutcomes(c) :
       /\ sd_pc' = [sd_pc EXCEPT ![c] = IF r = "ok" THEN "write" ELSE "panicked"]
       /\ nOpenFail' = IF r = "ok" THEN nOpenFail ELSE nOpenFail + 1
  /\ UNCHANGED <<sd_k, dd_pc, nWriteFail>>
  /\ UNCHANGED <<ctl, srvTasks, wire, counters, srvHist, repHist>>

\* SentAfterWrite with a plausible slip: sent is incremented whatever the result.
SentAfterWrite_Always(r, n) == n + 1

\* SendLoop with a plausible slip: the packet loop stops one iteration early.
SendLoop_Short(k) == IF k >= NumPackets - 1 THEN "done" ELSE "open"

\* SentAfterWrite with a plausible slip: the two arms are swapped, sent counts
\* the failed writes.
SentAfterWrite_OnErr(r, n) == IF r = "ok" THEN n ELSE n + 1

\* match result { Ok(_) => total_sent.fetch_add(1), Err(_) => log }
SentAfterWrite(r, n) == IF r = "ok" THEN n + 1 ELSE n

\* Position of the Send Driver after k iterations of the packet loop.
SendLoop(k) == IF k >= NumPackets THEN "done" ELSE "open"

\* Send Driver: stream.write_all(&packet).await resolves.  On Ok the task
\* goes on to yield_now; on Err the iteration ends and the stream is dropped.
SendWriteAll(c) ==
  /\ ClientAlive
  /\ sd_pc[c] = "write"
  /\ \E r \in OpOutcomes(c) :
       /\ total_sent' = SentAfterWrite(r, total_sent)
       /\ nWriteFail' = IF r = "ok" THEN nWriteFail ELSE nWriteFail + 1
       /\ sd_k' = [sd_k EXCEPT ![c] = IF r = "ok" THEN @ ELSE @ + 1]
       /\ sd_pc' = [sd_pc EXCEPT ![c] = IF r = "ok" THEN "yield" ELSE SendLoop(sd_k[c] + 1)]
       /\ faults' = FaultsAfter(c, r)
  /\ UNCHANGED <<dd_pc, nOpenFail, total_received, total_received_responses>>
  /\ UNCHANGED <<mode, addr_ok, server_addr, main_pc, rc_pc, rc_i, summary_sent>>
  /\ UNCHANGED <<srvTasks, wire, srvHist, repHist>>

\* Send Driver: task::yield_now().await returns and the iteration ends; the
\* stream is dropped, which finishes it: data and FIN wait in the send buffer.
SendYield(c) ==
  /\ ClientAlive
  /\ sd_pc[c] = "yield"
  /\ unflushed' = [unflushed EXCEPT ![c] = IF conn[c] = "up" THEN @ + 1 ELSE @]
  /\ sd_k' = [sd_k EXCEPT ![c] = @ + 1]
  /\ sd_pc' = [sd_pc EXCEPT ![c] = SendLoop(sd_k[c] + 1)]
  /\ UNCHANGED <<dd_pc, conn, arrived, dgrams>>
  /\ UNCHANGED <<ctl, srvTasks, counters, srvHist, repHist, cliHist>>

\* ResponsesAfterRead with a plausible slip: the counter is incremented on Err as well.
ResponsesAfterRead_Always(r, n) == n + 1

\* match result { Ok(bytes) => total_received.fetch_add(1), Err(_) => break }
ResponsesAfterRead(r, n) == IF r = "ok" THEN n + 1 ELSE n

\* DriveDatagram with a plausible slip: the task was handed total_sent
\* instead of total_received_responses.
DriveDatagram_WrongCounter(c) ==
  /\ ClientAlive
  /\ dd_pc[c] = "reading"
  /\ \E r \in {"ok", "err"} :
       /\ r = "ok" => dgrams[c] > 0
       /\ r = "err" => Closed(c)
       /\ dgrams' = [dgrams EXCEPT ![c] = IF r = "ok" THEN @ - 1 ELSE @]
       /\ total_sent' = ResponsesAfterRead(r, total_sent)
       /\ dd_pc' = [dd_pc EXCEPT ![c] = IF r = "ok" THEN "reading" ELSE "ended"]
  /\ UNCHANGED <<sd_pc, sd_k, conn, unflushed, arrived>>
  /\ UNCHANGED <<total_received_responses, total_received>>
  /\ UNCHANGED <<ctl, srvTasks, srvHist, repHist, cliHist>>

\* drive_datagram: connection.read_datagram().await resolves.
DriveDatagram(c) ==
  /\ ClientAlive
  /\ dd_pc[c] = "reading"
  /\ \E r \in {"ok", "err"} :
       /\ r = "ok" => dgrams[c] > 0
       /\ r = "err" => Closed(c)
       /\ dgrams' = [dgrams EXCEPT ![c] = IF r = "ok" THEN @ - 1 ELSE @]
       /\ total_received_responses' = ResponsesAfterRead(r, total_received_responses)
       /\ dd_pc' = [dd_pc EXCEPT ![c] = IF r = "ok" THEN "reading" ELSE "ended"]
  /\ UNCHANGED <<sd_pc, sd_k, conn, unflushed, arrived, total_sent, total_received>>
  /\ UNCHANGED <<ctl, srvTasks, srvHist, repHist, cliHist>>

(* ------------------------- transport (environment) --------------------- *)
\* A finished stream leaves the client's send buffer and reaches the server.
Transmit(c) ==
  /\ conn[c] = "up"
  /\ unflushed[c] > 0
  /\ unflushed' = [unflushed EXCEPT ![c] = @ - 1]
  /\ arrived' = [arrived EXCEPT ![c] = @ + 1]
  /\ UNCHANGED <<conn, dgrams>>
  /\ UNCHANGED <<ctl, srvTasks, cliTasks, counters, srvHist, repHist, cliHist>>

\* An acknowledgment datagram is dropped by the transport (datagrams are
\* unreliable whether or not faults are injected).
DatagramDrop(c) ==
  /\ dgrams[c] > 0
  /\ dgrams' = [dgrams EXCEPT ![c] = @ - 1]
  /\ UNCHANGED <<conn, unflushed, arrived>>
  /\ UNCHANGED <<ctl, srvTasks, cliTasks, counters, srvHist, repHist, cliHist>>

\* The connection ends: by idle timeout once nothing is outstanding on it,
\* or at any time by a transport failure when faults are injected.  What is
\* still in the send buffer is discarded with the connection.
ConnectionClose(c) ==
  /\ conn[c] = "up"
  /\ faults > 0 \/ Quiescent(c)
  /\ faults' = IF Quiescent(c) THEN faults ELSE faults - 1
  /\ conn' = [conn EXCEPT ![c] = "lost"]
  /\ unflushed' = [unflushed EXCEPT ![c] = 0]
  /\ UNCHANGED <<arrived, dgrams>>
  /\ UNCHANGED <<mode, addr_ok, server_addr, main_pc, rc_pc, rc_i, summary_sent>>
  /\ UNCHANGED <<srvTasks, cliTasks, counters, srvHist, repHist, cliHist>>

(* ---------------------------- specification ---------------------------- *)
Next ==
  \/ MainStart
  \/ MainSleep
  \/ MainJoin
  \/ MainReturn
  \/ ReportStats
  \/ \E e \in Endpoints : RunServerAccept(e)
  \/ \E c \in Conns : ServerHandleConnection(c)
  \/ \E c \in Conns : DriveStreamAccept(c)
  \/ \E c \in Conns : DriveStreamRead(c)
  \/ \E c \in Conns : DriveStreamSendDatagram(c)
  \/ RunClientSetup
  \/ RunClientConnect
  \/ RunClientConnected
  \/ RunClientReport
  \/ RunClientWaitIdle
  \/ \E c \in Conns : SendOpenUni(c)
  \/ \E c \in Conns : SendWriteAll(c)
  \/ \E c \in Conns : SendYield(c)
  \/ \E c \in Conns : DriveDatagram(c)
  \/ \E c \in Conns : Transmit(c)
  \/ \E c \in Conns : DatagramDrop(c)
  \/ \E c \in Conns : ConnectionClose(c)

Spec == Init /\ [][Next]_vars

\* Zero induced faults: the transport injects nothing.
InitLive == Init /\ faults = 0

\* Scheduling: the tokio runtimes run every ready task, the timers fire, and
\* without faults the transport delivers what is in its send buffer, completes
\* handshakes and expires idle connections.  Datagram loss is never forced.
Fairness ==
  /\ WF_vars(MainStart) /\ WF_vars(MainSleep) /\ WF_vars(MainJoin) /\ WF_vars(MainReturn)
  /\ WF_vars(ReportStats)
  /\ WF_vars(RunClientSetup) /\ WF_vars(RunClientConnect) /\ WF_vars(RunClientConnected)
  /\ WF_vars(RunClientReport) /\ WF_vars(RunClientWaitIdle)
  /\ \A e \in Endpoints : WF_vars(RunServerAccept(e))
  /\ \A c \in Conns :
       /\ WF_vars(ServerHandleConnection(c))
       /\ WF_vars(DriveStreamAccept(c))
       /\ WF_vars(DriveStreamRead(c))
       /\ WF_vars(DriveStreamSendDatagram(c))
       /\ WF_vars(SendOpenUni(c))
       /\ WF_vars(SendWriteAll(c))
       /\ WF_vars(SendYield(c))
       /\ WF_vars(DriveDatagram(c))
       /\ WF_vars(Transmit(c))
       /\ WF_vars(ConnectionClose(c))

LiveSpec == InitLive /\ [][Next]_vars /\ Fairness

(* ------------------------------- claims -------------------------------- *)
RECURSIVE SumOver(_, _)
SumOver(f, S) == IF S = {} THEN 0
                 ELSE LET c == CHOOSE x \in S : TRUE IN f[c] + SumOver(f, S \ {c})

\* Iterations of connection c's Send Driver whose write_all has resolved.
Written == [c \in Conns |-> sd_k[c] + (IF sd_pc[c] = "yield" THEN 1 ELSE 0)]

AllSendDriversDone == \A c \in Conns : sd_pc[c] = "done"

\* C1: with t connections of p packets and no failed open or write, sent never
\* exceeds t*p and equals t*p once every Send Driver has ended; sent counts
\* exactly the writes that succeeded.
C1_SentExact ==
  /\ total_sent <= NumThreads * NumPackets
  /\ total_sent + nWriteFail = SumOver(Written, Conns)
  /\ (nOpenFail = 0 /\ nWriteFail = 0 /\ AllSendDriversDone)
       => total_sent = NumThreads * NumPackets

C1_Witness ==
  /\ nOpenFail = 0 /\ nWriteFail = 0 /\ AllSendDriversDone
  /\ total_sent = NumThreads * NumPackets

\* C2: the number of increments of received always equals the number of
\* streams drained without a read error; a Failure stream is never counted.
C2_ReceivedOncePerSuccess == recvIncr = drainedOk

C2_Witness == drainedOk >= 2 /\ \E c \in Conns : hadFail[c]

\* Acknowledgment sends that have been called and not yet resolved.
PendingAcks == Cardinality({c \in Conns : srv_pc[c] = "send_datagram"})

\* C3: acknowledgment send attempts, resolved or pending, never outnumber the
\* increments of received: one attempt at most per increment, after it, and
\* none for a Failure stream.
C3_AckAtMostOncePerIncrement == ackAttempts + PendingAcks <= recvIncr

C3_Witness == ackAttempts >= 1 /\ PendingAcks >= 1 /\ \E c \in Conns : hadFail[c]

\* C4: in combined mode with zero faults and fair scheduling the server
\* eventually has counted every stream the Send Drivers wrote: t*p increments.
C4_AllEventuallyReceived ==
  (mode = "combined") => <>(recvIncr = NumThreads * NumPackets)

C4_Witness ==
  mode = "combined" /\ faults = 0 /\ recvIncr = NumThreads * NumPackets

\* C5: in combined mode with zero faults the process eventually exits once
\* run_client has returned.
C5_EventuallyExits == (mode = "combined") => <>(main_pc = "exit")

\* C6: when run_client has returned every client endpoint has reported idle
\* (its connection is drained) and no written stream is left in a send buffer.
C6_ReturnsOnlyWhenDrained ==
  rc_pc = "done" => \A c \in Conns : Closed(c) /\ unflushed[c] = 0

C6_Witness ==
  rc_pc = "done" /\ total_sent = NumThreads * NumPackets /\ drainedOk = total_sent

\* C7: the values reported so far plus the current value of received equal the
\* number of Success streams; no report is negative, and with no incoming
\* streams every report is 0.
C7_SwapLosesNothing ==
  /\ reportedSum + total_received = drainedOk
  /\ reportedSum >= 0 /\ total_received >= 0
  /\ drainedOk = 0 => reportedSum = 0

C7_Witness == reportedSum >= 1 /\ total_received >= 1

\* C8: received_responses, together with the datagrams still in flight, never
\* exceeds the acknowledgments the server actually sent.
C8_ResponsesAtMostAcksSent ==
  total_received_responses + SumOver(dgrams, Conns) <= ackSent

C8_Witness == total_received_responses >= 2 /\ total_received_responses < ackSent

\* C9: a read error on a stream sends the driver back to accept_uni with no
\* counter touched and no acknowledgment, and a stream drained without error
\* is counted and acknowledged also on a connection that had a Failure.
C9_ReadErrorKeepsDriver ==
  [][\A c \in Conns :
       (srv_pc[c] = "read" /\ srv_pc'[c] # "read") =>
         IF drainedOk' = drainedOk
           THEN /\ srv_pc'[c] = "accept_uni"
                /\ total_received' = total_received
                /\ hadFail'[c]
           ELSE /\ srv_pc'[c] = "send_datagram"
                /\ total_received' = total_received + 1]_vars

C9_Witness ==
  \E c \in Conns : hadFail[c] /\ srv_pc[c] = "send_datagram" /\ total_received >= 1

\* C10: a failed open or write never aborts the Send Driver's loop: a driver
\* that has ended has made exactly the configured number of attempts.
C10_LoopNeverAborted ==
  \A c \in Conns : sd_pc[c] \in {"done", "panicked"} => sd_k[c] = NumPackets

\* C11: a failed connection attempt abandons only that attempt: the accept
\* loops keep listening and run_client keeps running, so that the remaining
\* connections can still be established.
C11_FailedAttemptIsolated ==
  \A c \in Conns : conn[c] = "failed" =>
    /\ \A e \in Endpoints : rs_pc[e] = "accepting"
    /\ rc_pc # "panicked" /\ main_pc # "panicked"

\* C12: when accept_uni fails on a connection only that connection's
\* drive_stream ends: the step changes no other connection's driver, leaves
\* every accept loop running and leaves received untouched.
C12_AcceptErrorEndsOnlyThatDriver ==
  [][\A c \in Conns :
       (srv_pc[c] = "accept_uni" /\ srv_pc'[c] = "ended") =>
         /\ \A d \in Conns \ {c} : srv_pc'[d] = srv_pc[d]
         /\ \A e \in Endpoints : rs_pc[e] = "accepting" /\ rs_pc'[e] = "accepting"
         /\ total_received' = total_received
         /\ recvIncr' = recvIncr]_vars

C12_Witness ==
  \E c \in Conns : \E d \in Conns \ {c} :
    /\ srv_pc[c] = "ended" /\ conn[c] = "lost"
    /\ srv_pc[d] \in {"read", "send_datagram"}
    /\ \A e \in Endpoints : rs_pc[e] = "accepting"

\* C13 as claimed: in every mode, while the configured address is malformed
\* no step binds an endpoint or takes the program past its startup.
C13_MalformedAddressFatalInEveryMode ==
  [][~addr_ok =>
       /\ rs_pc' = rs_pc
       /\ rc_pc' \in {"idle", "setup", "panicked"}
       /\ main_pc' \in {"start", "client", "panicked"}]_vars

\* C13: in server-only and in client-only mode a malformed configured address
\* stops the program at startup: no server endpoint is bound, run_client never
\* gets past the parse, no connection is attempted and nothing is sent.
C13_MalformedAddressFailsStartup ==
  (~addr_ok /\ mode # "combined") =>
    /\ main_pc \in {"start", "client", "panicked"}
    /\ rc_pc \in {"idle", "setup", "panicked"}
    /\ mode = "server_only" => \A e \in Endpoints : rs_pc[e] = "unspawned"
    /\ \A c \in Conns : conn[c] = "none" /\ sd_pc[c] = "unspawned"
    /\ total_sent = 0 /\ total_received = 0

C13_Witness == ~addr_ok /\ mode = "server_only" /\ main_pc = "panicked"

\* C14: each counter has one kind of writer.  A step changes sent only as the
\* Ok arm of a Send Driver's write_all (+1), received_responses only as a
\* datagram read by drive_datagram (+1), received only as drive_stream's
\* increment after a drain (+1) or as report_stats' swap to 0; every other
\* step leaves the counters alone, so sent and received_responses never
\* decrease.
C14_CounterWriters ==
  [][/\ total_sent' # total_sent =>
          /\ total_sent' = total_sent + 1
          /\ \E c \in Conns : sd_pc[c] = "write" /\ sd_pc'[c] = "yield"
          /\ srv_pc' = srv_pc /\ dd_pc' = dd_pc /\ dgrams' = dgrams
          /\ total_received' = total_received
          /\ total_received_responses' = total_received_responses
     /\ total_received_responses' # total_received_responses =>
          /\ total_received_responses' = total_received_responses + 1
          /\ \E c \in Conns : dd_pc[c] = "reading" /\ dgrams'[c] = dgrams[c] - 1
          /\ srv_pc' = srv_pc /\ sd_pc' = sd_pc
          /\ total_sent' = total_sent /\ total_received' = total_received
     /\ total_received' # total_received =>
          /\ \/ /\ total_received' = total_received + 1
                /\ \E c \in Conns : srv_pc[c] = "read" /\ srv_pc'[c] = "send_datagram"
                /\ reportedSum' = reportedSum
             \/ /\ total_received' = 0
                /\ reportedSum' = reportedSum + total_received
                /\ srv_pc' = srv_pc
          /\ sd_pc' = sd_pc /\ dd_pc' = dd_pc
          /\ total_sent' = total_sent
          /\ total_received_responses' = total_received_responses]_vars

C14_Witness ==
  /\ total_sent >= 1 /\ total_received_responses >= 1
  /\ total_received >= 1 /\ reportedSum >= 1

\* C15: a failed acknowledgment send is dropped: the step that resolves
\* send_datagram_wait with an error changes no counter, puts no datagram on
\* the wire, is the only attempt for that stream and takes the driver back
\* to accept_uni.
C15_FailedAckDiscarded ==
  [][(ackAttempts' # ackAttempts /\ ackSent' = ackSent) =>
         /\ \E c \in Conns :
              /\ srv_pc[c] = "send_datagram" /\ srv_pc'[c] = "accept_uni"
              /\ \A d \in Conns \ {c} : srv_pc'[d] = srv_pc[d]
         /\ ackAttempts' = ackAttempts + 1
         /\ ackAttempts' + PendingAcks' <= recvIncr'
         /\ dgrams' = dgrams
         /\ total_received' = total_received /\ recvIncr' = recvIncr
         /\ total_sent' = total_sent
         /\ total_received_responses' = total_received_responses]_vars

C15_Witness ==
  /\ ackAttempts > ackSent
  /\ recvIncr = NumThreads * NumPackets
  /\ \A c \in Conns : conn[c] = "up" /\ srv_pc[c] = "accept_uni"

Stalled(c) ==
  \/ srv_pc[c] \in {"handshake", "read", "send_datagram"}
  \/ srv_pc[c] = "accept_uni" /\ arrived[c] = 0

C19_SummaryReadOnce ==
  [][/\ (ClientAlive /\ rc_pc = "report") => ENABLED RunClientReport
     /\ (rc_pc = "report" /\ rc_pc' # rc_pc) =>
          /\ rc_pc' = "wait_idle"
          /\ summary_sent' = total_sent
          /\ 0 <= summary_sent' /\ summary_sent' <= SumOver(Written, Conns)
     /\ rc_pc # "report" => summary_sent' = summary_sent
     /\ rc_pc \in {"wait_idle", "done"} => rc_pc' # "report"
     /\ rc_pc \notin {"wait_idle", "done"} => summary_sent = 0]_vars

C19_Witness ==
  /\ rc_pc \in {"wait_idle", "done"}
  /\ summary_sent < total_sent
  /\ nOpenFail = 0 /\ nWriteFail = 0 /\ AllSendDriversDone
  /\ total_sent = NumThreads * NumPackets

====
